---- MODULE Spec2Model ----
(***************************************************************************)
(* The todo store of src/src/store/todos.ts (useTodoStore) together with   *)
(* the hosted table it talks to (public.todos, src/unnamed/part_004) and   *)
(* the realtime channel that pushes the table's changes back to the store. *)
(*                                                                         *)
(* Every store operation is an async function with one await: the call     *)
(* (Issue), the service handling the request (Serve) and the continuation  *)
(* after the await (Settle) are three separate steps, so confirmations and *)
(* push events interleave freely.                                          *)
(*                                                                         *)
(* The optimistic store of src/docs/09-form-handling.md                    *)
(* (useOptimisticTodoStore) is modelled next to it, with its own variables *)
(* and its own specification SpecOpt.                                      *)
(***************************************************************************)
EXTENDS Integers, Sequences, FiniteSets, TLC

\* ------------------------------------------------------------------ bounds
MaxCalls == 3      \* store operations the client issues
MaxDup == 1        \* redeliveries of a push event (at-least-once delivery)
MaxOptCalls == 3   \* operations the client issues on the optimistic store
MaxClock == 2      \* milliseconds the clock advances

Titles == {"a"}

VARIABLES
  todos,       \* TodoState.todos
  loading,     \* TodoState.loading
  subscribed,  \* the 'todos' channel is joined
  calls,       \* the store operations called so far, each with its position
  db,          \* rows of public.todos
  srvTime,     \* the service's clock (now())
  nextId,      \* the next identifier the table hands out
  channel,     \* push events on their way to the client, in commit order
  ndup,        \* redeliveries made so far
  optTodos,           \* OptimisticTodoState.todos
  pendingOperations,  \* OptimisticTodoState.pendingOperations
  optCalls,           \* the optimistic operations called so far
  optDb,              \* rows of public.todos seen by the optimistic store
  optNextId,          \* the next identifier the table hands out
  clock,              \* Date.now() and the service's now(), in milliseconds
  lastConfirmed,      \* per id, what the service confirmed last (<<>>: deleted)
  formMode,           \* TodoForm's mode prop
  formValues,         \* the values of TodoForm's registered fields
  formErrors,         \* formState.errors: the fields the resolver rejected
  isSubmitted,        \* formState.isSubmitted
  formError,          \* TodoForm's error state is set
  submitting,         \* the handleFormSubmit calls awaiting onSubmit
  onSubmitCalls,      \* the data TodoForm's onSubmit prop was called with
  requests,           \* the requests the form's submissions sent to the service
  filter,             \* TodoState.filter
  sort,               \* TodoState.sort
  order,              \* TodoState.order
  search,             \* TodoState.search
  lastCall,           \* the latest filteredTodos() call since the view settings
                      \* were set: todos as it left them, and what it returned
  user,               \* AuthState.user (NoUser: null)
  authLoading,        \* AuthState.loading
  authCall,           \* the signIn or signOut awaiting the auth service
  mounted,            \* the page Home is mounted
  effectUser,         \* the user Home's effect last ran with (NoUser: none)
  fetches,            \* the fetchTodos calls of Home's effect still in flight
  connections,        \* RealtimeManager.connections: the channel names subscribed
  chanStatus,         \* the status the managed channel reported last
  reconnectAttempts,  \* RealtimeManager.reconnectAttempts
  timers,             \* the setTimeout calls of handleConnectionError not yet run
  reports,            \* connection losses reported so far
  wait,               \* debounce's wait argument, in milliseconds
  timeout,            \* debounce's timeout variable (NoTimer: null)
  scheduled,          \* the setTimeout callbacks not yet run nor cleared
  time,               \* the time passed since debounce was called, in ms
  trace,              \* the calls of the wrapper and of func, in their order
  items,              \* the mounted TodoItem components, each with its state
  initialized,        \* AuthState.initialized
  session,            \* the user of the auth client's session (NoUser: none)
  listeners,          \* the onAuthStateChange listeners registered
  initCall,           \* initialize() is awaiting getSession
  authReply,          \* what the auth service answered to authCall
  authResults,        \* how the signIn, signUp and signOut calls ended
  route,              \* the page shown
  rendered,           \* what ProtectedRoute renders ("none": not mounted)
  pushed              \* the route router.push was called with, on its way

storeVars == <<todos, loading, subscribed, calls, db, srvTime, nextId, channel, ndup>>

optVars == <<optTodos, pendingOperations, optCalls, optDb, optNextId, clock, lastConfirmed>>

formVars == <<formMode, formValues, formErrors, isSubmitted, formError, submitting,
              onSubmitCalls, requests>>

viewVars == <<filter, sort, order, search, lastCall>>

sessionVars == <<user, authLoading, authCall, mounted, effectUser, fetches>>

realtimeVars == <<connections, chanStatus, reconnectAttempts, timers, reports>>

debounceVars == <<wait, timeout, scheduled, time, trace>>

itemVars == <<items>>

authVars == <<initialized, session, listeners, initCall, authReply, authResults, route,
              rendered, pushed>>

uiVars == <<formVars, viewVars, sessionVars, realtimeVars, debounceVars, itemVars, authVars>>

vars == <<storeVars, optVars, uiVars>>

\* ------------------------------------------------------------ sequences
Ids(s) == {s[i].id : i \in 1..Len(s)}

Count(s, id) == Cardinality({i \in 1..Len(s) : s[i].id = id})

\* Array.prototype.find by id (the first match); only used when one exists
Find(s, id) == s[CHOOSE i \in 1..Len(s) : s[i].id = id /\ \A j \in 1..(i-1) : s[j].id # id]

\* ------------------------------------------------------------ the table
Todo(id, title, completed, created, updated) ==
  [id |-> id, title |-> title, completed |-> completed,
   created_at |-> created, updated_at |-> updated]

Row(id) == CHOOSE r \in db : r.id = id

\* .update(updates): the fields named by the update replace the row's
Patch(r, u) ==
  [r EXCEPT !.title = IF u.field = "title" THEN u.title ELSE @,
            !.completed = IF u.field = "completed" THEN u.completed ELSE @]

Updates ==
  {[field |-> "completed", completed |-> TRUE, title |-> "a"],
   [field |-> "title", completed |-> FALSE, title |-> "b"]}

NoUpdate == [field |-> "none", completed |-> FALSE, title |-> "a"]

\* .select('*').order('created_at', { ascending: false })
RECURSIVE OrderDesc(_)
OrderDesc(S) ==
  IF S = {} THEN <<>>
  ELSE LET m == CHOOSE r \in S : \A q \in S : q.created_at <= r.created_at
       IN <<m>> \o OrderDesc(S \ {m})

\* ------------------------------------------------- the store's reducers
\* addTodo's set(): todos: [data, ...state.todos]
AddConfirm(s, data) == <<data>> \o s

\* updateTodo's set(): state.todos.map(todo => todo.id === id ? data : todo)
UpdateConfirmFlips(s, id, data) ==
  [i \in 1..Len(s) |-> IF s[i].id = id THEN [s[i] EXCEPT !.completed = ~@] ELSE s[i]]

UpdateConfirm(s, id, data) ==
  [i \in 1..Len(s) |-> IF s[i].id = id THEN data ELSE s[i]]

\* deleteTodo's set(): state.todos.filter(todo => todo.id !== id)
DeleteConfirmKeeps(s, id) == s

DeleteConfirm(s, id) == SelectSeq(s, LAMBDA t : t.id # id)

\* fetchTodos' set(): todos: data || []
FetchConfirm(s, data) == data

\* the catch blocks: console.error and rethrow, no set()
RejectedDropsFirst(s) == IF s = <<>> THEN s ELSE Tail(s)

Rejected(s) == s

\* the postgres_changes handler of subscribeToTodos
HandleEvent(s, e) ==
  CASE e.eventType = "INSERT" -> <<e.new>> \o s
    [] e.eventType = "UPDATE" ->
         [i \in 1..Len(s) |-> IF s[i].id = e.new.id THEN e.new ELSE s[i]]
    [] e.eventType = "DELETE" -> SelectSeq(s, LAMBDA t : t.id # e.old.id)
    [] OTHER -> s

\* ------------------------------------------------------------- calls
Pending(c) == c.phase \in {"sent", "served"}

PendingCalls == {i \in 1..Len(calls) : Pending(calls[i])}

\* a call at its await: the request is on its way to the service
Call(op, id, upd, title, toggle) ==
  [op |-> op, id |-> id, upd |-> upd, title |-> title, toggle |-> toggle,
   phase |-> "sent", ok |-> TRUE, data |-> <<>>,
   evSeen |-> FALSE,        \* the push event of this call's change was handled
   evFirst |-> FALSE,       \* ... before the call's own confirmation
   gone |-> FALSE,          \* the service found no row of the call's id
   snap |-> todos,          \* todos when the call was made
   over |-> PendingCalls]   \* the calls in flight when this one was made

Event(type, new, old, src) ==
  [eventType |-> type, new |-> new, old |-> old, src |-> src]

\* the publication supabase_realtime pushes a change to a joined channel
Publish(e) == IF subscribed THEN Append(channel, e) ELSE channel

Served(i, ok, data) ==
  [calls EXCEPT ![i].phase = "served", ![i].ok = ok, ![i].data = data]

\* the same, the request having matched no row of the table
ServedGone(i, ok, data) ==
  [Served(i, ok, data) EXCEPT ![i].gone = TRUE]

Settled(i) ==
  [calls EXCEPT ![i].phase = IF calls[i].ok THEN "resolved" ELSE "rejected",
                ![i].evFirst = calls[i].evSeen]

\* ------------------------------------------------- the optimistic store
\* Map.set and Map.delete on pendingOperations
\* (a map is the set of its <<key, value>> entries)
MapDelete(m, k) == {e \in m : e[1] # k}

MapSet(m, k, v) == MapDelete(m, k) \cup {<<k, v>>}

MapKeys(m) == {e[1] : e \in m}

\* `temp-${Date.now()}`: never the id of a row
TempId(now) == 0 - now

OptRow(id) == CHOOSE r \in optDb : r.id = id

OptPendingCalls == {i \in 1..Len(optCalls) : Pending(optCalls[i])}

\* an optimistic call at its await: the local change is made, the request sent
OptCall(op, id, upd, title, orig, after) ==
  [op |-> op, id |-> id, upd |-> upd, title |-> title,
   phase |-> "sent", ok |-> TRUE, data |-> <<>>,
   orig |-> orig,          \* originalTodo
   snap |-> optTodos,      \* todos before the optimistic change
   post |-> after]         \* todos after the optimistic change

OptServed(i, ok, data) ==
  [optCalls EXCEPT ![i].phase = "served", ![i].ok = ok, ![i].data = data]

OptSettled(i) ==
  [optCalls EXCEPT ![i].phase = IF optCalls[i].ok THEN "resolved" ELSE "rejected"]

InitOptStore ==
  /\ optTodos = <<>>
  /\ pendingOperations = {}
  /\ optCalls = <<>>
  /\ optDb = {}
  /\ optNextId = 1
  /\ clock = 1
  /\ lastConfirmed = {}

\* ------------------------------------------------------------ strings
\* A string is kept as the number of whitespace characters it starts with,
\* the length of the part from its first to its last non-whitespace
\* character, and the number of whitespace characters it ends with.
Str(lead, body, trail) == [lead |-> lead, body |-> body, trail |-> trail]

Length(s) == s.lead + s.body + s.trail

\* String.prototype.trim
Trim(s) == Str(0, s.body, 0)

Empty == Str(0, 0, 0)

Undefined == [undefined |-> TRUE]

Null == [null |-> TRUE]

\* value || null
OrNull(v) == IF v = Undefined \/ v = Empty THEN Null ELSE v

\* ------------------------------------------------- src/lib/validations.ts
TitleMin == 1

TitleMax == 100

DescriptionMax == 500

\* title: z.string().min(1).max(100).trim().refine(val => val.length > 0);
\* the checks run in the order they are chained, so the two length checks
\* see the string as typed and the refinement sees it trimmed
\* (TitleAcceptedUntrimmed: the same without the refinement)
TitleAcceptedUntrimmed(title) ==
  /\ Length(title) >= TitleMin
  /\ Length(title) <= TitleMax
TitleAccepted(title) ==
  /\ Length(title) >= TitleMin
  /\ Length(title) <= TitleMax
  /\ Length(Trim(title)) > 0

\* description: z.string().max(500).optional().or(z.literal(''))
\* (DescriptionAcceptsAll: the same without the length check)
DescriptionAcceptsAll(description) == TRUE
DescriptionAccepted(description) ==
  \/ description = Undefined
  \/ description # Undefined /\ Length(description) <= DescriptionMax
  \/ description = Empty

\* .transform(val => (val === '' ? undefined : val))
DescriptionOut(description) ==
  IF description = Empty THEN Undefined ELSE description

\* todoSchema.safeParse(input)
todoSchema(input) ==
  [success |-> TitleAccepted(input.title) /\ DescriptionAccepted(input.description),
   errors |-> (IF TitleAccepted(input.title) THEN {} ELSE {"title"})
                \cup (IF DescriptionAccepted(input.description) THEN {} ELSE {"description"}),
   data |-> [title |-> Trim(input.title),
             description |-> DescriptionOut(input.description)]]

\* --------------------------------------------------------- the form
MaxPad == 1        \* whitespace characters typed before or after a title
MaxSubmits == 2    \* presses of the form's submit button

TitleInputs ==
  {Str(l, b, t) : l \in 0..MaxPad, t \in 0..MaxPad,
                  b \in {0, 1, TitleMax, TitleMax + 1}}

DescriptionInputs ==
  {Undefined} \cup {Str(0, n, 0) : n \in {0, 1, DescriptionMax, DescriptionMax + 1}}

\* defaultValues: initialData || { title: '', description: '' }
DefaultValues(mode) ==
  IF mode = "edit" THEN [title |-> Str(0, 1, 0), description |-> Empty]
  ELSE [title |-> Empty, description |-> Empty]

InitForm ==
  /\ formValues = DefaultValues(formMode)
  /\ formErrors = {}
  /\ isSubmitted = FALSE
  /\ formError = FALSE
  /\ submitting = 0
  /\ onSubmitCalls = <<>>
  /\ requests = <<>>

\* ------------------------------------------------- text, for the view
\* In filteredTodos a text is the sequence of its characters.
Code(c) ==
  CASE c = "A" -> 65 [] c = "B" -> 66 [] c = "a" -> 97 [] c = "b" -> 98

\* String.prototype.toLowerCase
ToLowerCase(s) ==
  [i \in 1..Len(s) |-> CASE s[i] = "A" -> "a" [] s[i] = "B" -> "b" [] OTHER -> s[i]]

\* String.prototype.includes
Includes(s, sub) ==
  \E i \in 0..(Len(s) - Len(sub)) : \A k \in 1..Len(sub) : s[i + k] = sub[k]

\* s < t on strings: the first differing code unit decides, a proper prefix
\* is smaller
StringLess(s, t) ==
  \E k \in 1..Len(t) :
    /\ \A j \in 1..(k - 1) : j <= Len(s) /\ s[j] = t[j]
    /\ \/ k > Len(s)
       \/ k <= Len(s) /\ Code(s[k]) < Code(t[k])

\* ----------------------------------------------- filteredTodos (todos.ts)
Filters == {"all", "active", "completed"}

Sorts == {"created_at", "updated_at", "title"}

Orders == {"asc", "desc"}

\* if (search) filtered = filtered.filter(title or description includes it);
\* a null and an empty description are both falsy
MatchesSearch(todo, q) ==
  \/ q = <<>>
  \/ Includes(ToLowerCase(todo.title), ToLowerCase(q))
  \/ todo.description # <<>> /\ Includes(ToLowerCase(todo.description), ToLowerCase(q))

\* switch (filter)
MatchesFilter(todo, f) ==
  CASE f = "active" -> ~todo.completed
    [] f = "completed" -> todo.completed
    [] OTHER -> TRUE

\* aValue < bValue for the values the comparator's switch (sort) picks
ValueLess(a, b, st) ==
  CASE st = "title" -> StringLess(ToLowerCase(a.title), ToLowerCase(b.title))
    [] st = "updated_at" -> a.updated_at < b.updated_at
    [] OTHER -> a.created_at < b.created_at

\* the comparator handed to sort: it never returns 0
Compare(a, b, st, ord) ==
  IF ord = "asc"
  THEN (IF ValueLess(b, a, st) THEN 1 ELSE -1)
  ELSE (IF ValueLess(a, b, st) THEN 1 ELSE -1)

Orderings(n) ==
  {q \in [1..n -> 1..n] : \A i, j \in 1..n : q[i] = q[j] => i = j}

\* Array.prototype.sort with this comparator: records with different values
\* come out in the comparator's order; for records with equal values the
\* comparator answers -1 both ways, it is no consistent comparator, and the
\* order they come out in is implementation-defined
SortOutcomes(s, st, ord) ==
  {p \in {[i \in 1..Len(s) |-> s[q[i]]] : q \in Orderings(Len(s))} :
     \A i, j \in 1..Len(p) : i < j => Compare(p[i], p[j], st, ord) = -1}

\* let filtered = todos: without a search and with the filter 'all' no
\* filter() copies the array, and sort() sorts the array it is called on
SortsInPlace(q, f) == q = <<>> /\ f = "all"

NoCall == [made |-> FALSE, after |-> <<>>, result |-> <<>>]

InitView ==
  /\ filter = "all"
  /\ sort = "created_at"
  /\ order = "desc"
  /\ search = <<>>
  /\ lastCall = NoCall

\* ------------------------------------------------------- the session
NoUser == 0

Users == {1, 2}

NoAuth == [op |-> "none", user |-> NoUser]

\* one user is signed in, the page is mounted and its effect has run
InitSession ==
  /\ user = 1
  /\ authLoading = FALSE
  /\ authCall = NoAuth
  /\ mounted = TRUE
  /\ effectUser = 1
  /\ fetches = {}

\* ------------------------------------------------- the realtime manager
InitRealtime ==
  /\ connections = {}
  /\ chanStatus = "none"
  /\ reconnectAttempts = 0
  /\ timers = <<>>
  /\ reports = 0

\* ------------------------------------------- debounce (validations.ts)
NoTimer == 0

\* the state debounce(func, wait) returns its wrapper in
DebounceStart ==
  /\ timeout = NoTimer
  /\ scheduled = {}
  /\ time = 0
  /\ trace = <<>>

InitDebounce ==
  /\ wait = 1
  /\ DebounceStart

\* ----------------------------------- TodoList and TodoItem (the list)
\* TodoList renders the records in two groups, each under its own parent
Group(r) == IF r.completed THEN "completed" ELSE "active"

\* a TodoItem as it mounts: useState(false) twice
Mounted(r) ==
  [group |-> Group(r), id |-> r.id,
   isEditing |-> FALSE, loading |-> FALSE,
   awaiting |-> {}]   \* the calls whose finally block will run in this item

\* the list rendered anew: a record whose key was rendered in the same group
\* keeps its component, any other record gets a new one
Render(prev, s) ==
  {IF \E it \in prev : it.id = s[k].id /\ it.group = Group(s[k])
   THEN CHOOSE it \in prev : it.id = s[k].id /\ it.group = Group(s[k])
   ELSE Mounted(s[k]) : k \in 1..Len(s)}

InitItems == items = {}

\* ---------------------------- the auth store, ProtectedRoute, AuthPage
\* ProtectedRoute's render
\* (ProtectedRouteIgnoresLoading: the same without the test of loading)
ProtectedRouteIgnoresLoading(u, l, i) ==
  IF ~i THEN "spinner"
  ELSE IF u = NoUser THEN "null" ELSE "children"
ProtectedRoute(u, l, i) ==
  IF ~i \/ l THEN "spinner"
  ELSE IF u = NoUser THEN "null" ELSE "children"

\* the two effects that navigate: ProtectedRoute's on '/', AuthPage's on '/auth'
Push(r, u, l, i, before) ==
  IF r = "/" /\ i /\ ~l /\ u = NoUser THEN "/auth"
  ELSE IF r = "/auth" /\ u # NoUser /\ ~l THEN "/"
  ELSE before

\* the auth store as created, Home open with a user signed in and the page
\* shown
InitAuth ==
  /\ initialized = TRUE
  /\ session = 1
  /\ listeners = {"initialize"}
  /\ initCall = FALSE
  /\ authReply = "none"
  /\ authResults = <<>>
  /\ route = "/"
  /\ rendered = "children"
  /\ pushed = "none"

InitUi ==
  /\ formMode = "create"
  /\ InitForm
  /\ InitView
  /\ InitSession
  /\ InitRealtime
  /\ InitDebounce
  /\ InitItems
  /\ InitAuth

\* ------------------------------------------------------------- Init
InitStore ==
  /\ todos = <<>>
  /\ loading = FALSE
  /\ subscribed = FALSE
  /\ calls = <<>>
  /\ db \in {{}, {Todo(1, "a", FALSE, 1, 1)}}
  /\ srvTime = 1
  /\ nextId = 2
  /\ channel = <<>>
  /\ ndup = 0

Init ==
  /\ InitStore
  /\ InitOptStore
  /\ InitUi

\* ------------------------------------------------- the client's calls
FetchTodos ==
  /\ Len(calls) < MaxCalls
  /\ loading' = TRUE
  /\ calls' = Append(calls, Call("fetch", 0, NoUpdate, "a", FALSE))
  /\ UNCHANGED <<todos, subscribed, db, srvTime, nextId, channel, ndup, optVars, uiVars>>

AddTodo ==
  /\ Len(calls) < MaxCalls
  /\ \E t \in Titles :
       calls' = Append(calls, Call("add", 0, NoUpdate, t, FALSE))
  /\ UNCHANGED <<todos, loading, subscribed, db, srvTime, nextId, channel, ndup, optVars, uiVars>>

UpdateTodo ==
  /\ Len(calls) < MaxCalls
  /\ \E id \in Ids(todos), u \in Updates :
       calls' = Append(calls, Call("update", id, u, "a", FALSE))
  /\ UNCHANGED <<todos, loading, subscribed, db, srvTime, nextId, channel, ndup, optVars, uiVars>>

DeleteTodo ==
  /\ Len(calls) < MaxCalls
  /\ \E id \in Ids(todos) :
       calls' = Append(calls, Call("delete", id, NoUpdate, "a", FALSE))
  /\ UNCHANGED <<todos, loading, subscribed, db, srvTime, nextId, channel, ndup, optVars, uiVars>>

\* toggleTodo: find the record, return when there is none, else updateTodo
ToggleTodo ==
  /\ Len(calls) < MaxCalls
  /\ \E id \in 1..(nextId - 1) :
       IF id \notin Ids(todos)
       THEN calls' = calls
       ELSE calls' = Append(calls,
              Call("update", id,
                   [field |-> "completed", completed |-> ~Find(todos, id).completed,
                    title |-> "a"],
                   "a", TRUE))
  /\ UNCHANGED <<todos, loading, subscribed, db, srvTime, nextId, channel, ndup, optVars, uiVars>>

SubscribeToTodos ==
  /\ ~subscribed
  /\ subscribed' = TRUE
  /\ UNCHANGED <<todos, loading, calls, db, srvTime, nextId, channel, ndup, optVars, uiVars>>

\* ------------------------------------------------------- the service
\* a request the service rejects (network, session): nothing is written
ServeError ==
  \E i \in 1..Len(calls) :
    /\ calls[i].phase = "sent"
    /\ calls' = Served(i, FALSE, <<>>)
    /\ UNCHANGED <<todos, loading, subscribed, db, srvTime, nextId, channel, ndup, optVars, uiVars>>

ServeSelect ==
  \E i \in 1..Len(calls) :
    /\ calls[i].phase = "sent" /\ calls[i].op = "fetch"
    /\ calls' = Served(i, TRUE, OrderDesc(db))
    /\ UNCHANGED <<todos, loading, subscribed, db, srvTime, nextId, channel, ndup, optVars, uiVars>>

ServeInsert ==
  \E i \in 1..Len(calls) :
    /\ calls[i].phase = "sent" /\ calls[i].op = "add"
    /\ LET row == Todo(nextId, calls[i].title, FALSE, srvTime + 1, srvTime + 1)
       IN /\ db' = db \cup {row}
          /\ channel' = Publish(Event("INSERT", row, row, i))
          /\ calls' = Served(i, TRUE, <<row>>)
    /\ srvTime' = srvTime + 1
    /\ nextId' = nextId + 1
    /\ UNCHANGED <<todos, loading, subscribed, ndup, optVars, uiVars>>

\* .update(updates).eq('id', id).select().single(): no row is an error
ServeUpdate ==
  \E i \in 1..Len(calls) :
    /\ calls[i].phase = "sent" /\ calls[i].op = "update"
    /\ IF \E r \in db : r.id = calls[i].id
       THEN LET old == Row(calls[i].id)
                row == [Patch(old, calls[i].upd) EXCEPT !.updated_at = srvTime + 1]
            IN /\ db' = (db \ {old}) \cup {row}
               /\ channel' = Publish(Event("UPDATE", row, old, i))
               /\ calls' = Served(i, TRUE, <<row>>)
               /\ srvTime' = srvTime + 1
       ELSE /\ calls' = ServedGone(i, FALSE, <<>>)
            /\ UNCHANGED <<db, channel, srvTime>>
    /\ UNCHANGED <<todos, loading, subscribed, nextId, ndup, optVars, uiVars>>

\* .delete().eq('id', id): deleting no row is not an error
ServeDelete ==
  \E i \in 1..Len(calls) :
    /\ calls[i].phase = "sent" /\ calls[i].op = "delete"
    /\ IF \E r \in db : r.id = calls[i].id
       THEN LET old == Row(calls[i].id)
            IN /\ db' = db \ {old}
               /\ channel' = Publish(Event("DELETE", old, old, i))
               /\ calls' = Served(i, TRUE, <<>>)
       ELSE /\ calls' = ServedGone(i, TRUE, <<>>)
            /\ UNCHANGED <<db, channel>>
    /\ UNCHANGED <<todos, loading, subscribed, srvTime, nextId, ndup, optVars, uiVars>>

\* --------------------------------------- the continuations after await
FetchTodosSettle ==
  \E i \in 1..Len(calls) :
    /\ calls[i].phase = "served" /\ calls[i].op = "fetch"
    /\ todos' = IF calls[i].ok THEN FetchConfirm(todos, calls[i].data) ELSE Rejected(todos)
    /\ loading' = FALSE
    /\ calls' = Settled(i)
    /\ UNCHANGED <<subscribed, db, srvTime, nextId, channel, ndup, optVars, uiVars>>

AddTodoSettle ==
  \E i \in 1..Len(calls) :
    /\ calls[i].phase = "served" /\ calls[i].op = "add"
    /\ todos' = IF calls[i].ok THEN AddConfirm(todos, calls[i].data[1]) ELSE Rejected(todos)
    /\ calls' = Settled(i)
    /\ UNCHANGED <<loading, subscribed, db, srvTime, nextId, channel, ndup, optVars, uiVars>>

UpdateTodoSettle ==
  \E i \in 1..Len(calls) :
    /\ calls[i].phase = "served" /\ calls[i].op = "update"
    /\ todos' = IF calls[i].ok
                THEN UpdateConfirm(todos, calls[i].id, calls[i].data[1])
                ELSE Rejected(todos)
    /\ calls' = Settled(i)
    /\ UNCHANGED <<loading, subscribed, db, srvTime, nextId, channel, ndup, optVars, uiVars>>

DeleteTodoSettle ==
  \E i \in 1..Len(calls) :
    /\ calls[i].phase = "served" /\ calls[i].op = "delete"
    /\ todos' = IF calls[i].ok THEN DeleteConfirm(todos, calls[i].id) ELSE Rejected(todos)
    /\ calls' = Settled(i)
    /\ UNCHANGED <<loading, subscribed, db, srvTime, nextId, channel, ndup, optVars, uiVars>>

\* ------------------------------------------------ the realtime channel
SawEvent(e) ==
  IF e.src = 0 THEN calls ELSE [calls EXCEPT ![e.src].evSeen = TRUE]

\* the head event reaches the handler and leaves the channel
Deliver ==
  /\ channel # <<>>
  /\ todos' = HandleEvent(todos, Head(channel))
  /\ calls' = SawEvent(Head(channel))
  /\ channel' = Tail(channel)
  /\ UNCHANGED <<loading, subscribed, db, srvTime, nextId, ndup, optVars, uiVars>>

\* the head event reaches the handler and will be delivered again
DeliverAgain ==
  /\ channel # <<>>
  /\ ndup < MaxDup
  /\ todos' = HandleEvent(todos, Head(channel))
  /\ calls' = SawEvent(Head(channel))
  /\ ndup' = ndup + 1
  /\ UNCHANGED <<loading, subscribed, db, srvTime, nextId, channel, optVars, uiVars>>

Next ==
  \/ FetchTodos \/ AddTodo \/ UpdateTodo \/ DeleteTodo \/ ToggleTodo
  \/ SubscribeToTodos
  \/ ServeError \/ ServeSelect \/ ServeInsert \/ ServeUpdate \/ ServeDelete
  \/ FetchTodosSettle \/ AddTodoSettle \/ UpdateTodoSettle \/ DeleteTodoSettle
  \/ Deliver \/ DeliverAgain

Spec == Init /\ [][Next]_vars

Quiescent == PendingCalls = {} /\ channel = <<>>

\* ------------------------------------------ the optimistic operations
OptimisticAdd ==
  /\ Len(optCalls) < MaxOptCalls
  /\ \E t \in Titles :
       LET tempId == TempId(clock)
           optimisticTodo == Todo(tempId, t, FALSE, clock, clock)
           after == <<optimisticTodo>> \o optTodos
       IN /\ optTodos' = after
          /\ pendingOperations' = MapSet(pendingOperations, tempId, "insert")
          /\ optCalls' = Append(optCalls, OptCall("add", tempId, NoUpdate, t, <<>>, after))
  /\ UNCHANGED <<optDb, optNextId, clock, lastConfirmed, storeVars, uiVars>>

\* originalTodo is found (the call returns at once when it is not)
OptimisticUpdate ==
  /\ Len(optCalls) < MaxOptCalls
  /\ \E id \in Ids(optTodos), u \in Updates :
       LET originalTodo == Find(optTodos, id)
           after == [i \in 1..Len(optTodos) |->
                       IF optTodos[i].id = id
                       THEN [Patch(optTodos[i], u) EXCEPT !.updated_at = clock]
                       ELSE optTodos[i]]
       IN /\ optTodos' = after
          /\ pendingOperations' = MapSet(pendingOperations, id, "update")
          /\ optCalls' = Append(optCalls, OptCall("update", id, u, "a", <<originalTodo>>, after))
  /\ UNCHANGED <<optDb, optNextId, clock, lastConfirmed, storeVars, uiVars>>

OptimisticDelete ==
  /\ Len(optCalls) < MaxOptCalls
  /\ \E id \in Ids(optTodos) :
       LET originalTodo == Find(optTodos, id)
           after == SelectSeq(optTodos, LAMBDA t : t.id # id)
       IN /\ optTodos' = after
          /\ pendingOperations' = MapSet(pendingOperations, id, "delete")
          /\ optCalls' = Append(optCalls,
                                OptCall("delete", id, NoUpdate, "a", <<originalTodo>>, after))
  /\ UNCHANGED <<optDb, optNextId, clock, lastConfirmed, storeVars, uiVars>>

RollbackOperation ==
  /\ \E operationId \in MapKeys(pendingOperations) :
       pendingOperations' = MapDelete(pendingOperations, operationId)
  /\ UNCHANGED <<optTodos, optCalls, optDb, optNextId, clock, lastConfirmed, storeVars, uiVars>>

\* time passes
Tick ==
  /\ clock < MaxClock
  /\ clock' = clock + 1
  /\ UNCHANGED <<optTodos, pendingOperations, optCalls, optDb, optNextId, lastConfirmed,
                 storeVars, uiVars>>

\* -------------------------------- the service, for the optimistic store
OptServeError ==
  \E i \in 1..Len(optCalls) :
    /\ optCalls[i].phase = "sent"
    /\ optCalls' = OptServed(i, FALSE, <<>>)
    /\ UNCHANGED <<optTodos, pendingOperations, optDb, optNextId, clock, lastConfirmed,
                   storeVars, uiVars>>

OptServeInsert ==
  \E i \in 1..Len(optCalls) :
    /\ optCalls[i].phase = "sent" /\ optCalls[i].op = "add"
    /\ LET row == Todo(optNextId, optCalls[i].title, FALSE, clock, clock)
       IN /\ optDb' = optDb \cup {row}
          /\ optCalls' = OptServed(i, TRUE, <<row>>)
    /\ optNextId' = optNextId + 1
    /\ UNCHANGED <<optTodos, pendingOperations, clock, lastConfirmed, storeVars, uiVars>>

OptServeUpdate ==
  \E i \in 1..Len(optCalls) :
    /\ optCalls[i].phase = "sent" /\ optCalls[i].op = "update"
    /\ IF \E r \in optDb : r.id = optCalls[i].id
       THEN LET old == OptRow(optCalls[i].id)
                row == [Patch(old, optCalls[i].upd) EXCEPT !.updated_at = clock]
            IN /\ optDb' = (optDb \ {old}) \cup {row}
               /\ optCalls' = OptServed(i, TRUE, <<row>>)
       ELSE /\ optCalls' = OptServed(i, FALSE, <<>>)
            /\ UNCHANGED optDb
    /\ UNCHANGED <<optTodos, pendingOperations, optNextId, clock, lastConfirmed, storeVars, uiVars>>

OptServeDelete ==
  \E i \in 1..Len(optCalls) :
    /\ optCalls[i].phase = "sent" /\ optCalls[i].op = "delete"
    /\ optDb' = {r \in optDb : r.id # optCalls[i].id}
    /\ optCalls' = OptServed(i, TRUE, <<>>)
    /\ UNCHANGED <<optTodos, pendingOperations, optNextId, clock, lastConfirmed, storeVars, uiVars>>

\* ------------------- the continuations of the optimistic operations
\* optimisticAdd: the temporary record becomes data; on error it is removed
AddReplace(s, tempId, data) ==
  [i \in 1..Len(s) |-> IF s[i].id = tempId THEN data ELSE s[i]]

AddRollback(s, tempId) == SelectSeq(s, LAMBDA t : t.id # tempId)

\* optimisticUpdate: the record becomes data; on error it becomes originalTodo
UpdateReplace(s, id, data) ==
  [i \in 1..Len(s) |-> IF s[i].id = id THEN data ELSE s[i]]

UpdateRollback(s, id, originalTodo) ==
  [i \in 1..Len(s) |-> IF s[i].id = id THEN originalTodo ELSE s[i]]

\* optimisticDelete: nothing to do; on error originalTodo is put first
DeleteRollback(s, originalTodo) == <<originalTodo>> \o s

OptimisticAddSettle ==
  \E i \in 1..Len(optCalls) :
    LET c == optCalls[i] IN
    /\ c.phase = "served" /\ c.op = "add"
    /\ optTodos' = IF c.ok THEN AddReplace(optTodos, c.id, c.data[1])
                   ELSE AddRollback(optTodos, c.id)
    /\ pendingOperations' = MapDelete(pendingOperations, c.id)
    /\ lastConfirmed' = IF c.ok THEN MapSet(lastConfirmed, c.data[1].id, c.data)
                        ELSE lastConfirmed
    /\ optCalls' = OptSettled(i)
    /\ UNCHANGED <<optDb, optNextId, clock, storeVars, uiVars>>

OptimisticUpdateSettle ==
  \E i \in 1..Len(optCalls) :
    LET c == optCalls[i] IN
    /\ c.phase = "served" /\ c.op = "update"
    /\ optTodos' = IF c.ok THEN UpdateReplace(optTodos, c.id, c.data[1])
                   ELSE UpdateRollback(optTodos, c.id, c.orig[1])
    /\ pendingOperations' = MapDelete(pendingOperations, c.id)
    /\ lastConfirmed' = IF c.ok THEN MapSet(lastConfirmed, c.id, c.data)
                        ELSE lastConfirmed
    /\ optCalls' = OptSettled(i)
    /\ UNCHANGED <<optDb, optNextId, clock, storeVars, uiVars>>

OptimisticDeleteSettle ==
  \E i \in 1..Len(optCalls) :
    LET c == optCalls[i] IN
    /\ c.phase = "served" /\ c.op = "delete"
    /\ optTodos' = IF c.ok THEN optTodos ELSE DeleteRollback(optTodos, c.orig[1])
    /\ pendingOperations' = MapDelete(pendingOperations, c.id)
    /\ lastConfirmed' = IF c.ok THEN MapSet(lastConfirmed, c.id, <<>>)
                        ELSE lastConfirmed
    /\ optCalls' = OptSettled(i)
    /\ UNCHANGED <<optDb, optNextId, clock, storeVars, uiVars>>

NextOpt ==
  \/ OptimisticAdd \/ OptimisticUpdate \/ OptimisticDelete \/ RollbackOperation
  \/ Tick
  \/ OptServeError \/ OptServeInsert \/ OptServeUpdate \/ OptServeDelete
  \/ OptimisticAddSettle \/ OptimisticUpdateSettle \/ OptimisticDeleteSettle

SpecOpt == Init /\ [][NextOpt]_vars

OptQuiescent == OptPendingCalls = {}

\* ------------------------------------------------------------ TodoForm
\* register(field).onChange; once the form was submitted the changed field
\* is validated again on every change (reValidateMode 'onChange')
SetValue ==
  \E field \in {"title", "description"} :
    \E v \in (IF field = "title" THEN TitleInputs ELSE DescriptionInputs) :
      LET values == [formValues EXCEPT ![field] = v] IN
      /\ v # formValues[field]
      /\ formValues' = values
      /\ formErrors' = IF isSubmitted
                       THEN (formErrors \ {field}) \cup (todoSchema(values).errors \cap {field})
                       ELSE formErrors
      /\ UNCHANGED <<formMode, isSubmitted, formError, submitting, onSubmitCalls, requests,
                     storeVars, optVars, viewVars, sessionVars, realtimeVars, debounceVars,
                     itemVars, authVars>>

\* handleSubmit(handleFormSubmit), up to the await of onSubmit: the resolver
\* runs first and handleFormSubmit is called with the parsed data only when
\* it accepts; onSubmit is handleAddTodo (page.tsx) or handleEdit (TodoItem),
\* which send the request
TodoFormSubmit ==
  LET r == todoSchema(formValues) IN
  /\ formMode = "edit" => submitting = 0
  /\ isSubmitted' = TRUE
  /\ formErrors' = r.errors
  /\ IF r.success
     THEN /\ Len(requests) < MaxSubmits
          /\ formError' = FALSE
          /\ submitting' = submitting + 1
          /\ onSubmitCalls' = Append(onSubmitCalls, r.data)
          /\ requests' = Append(requests,
                                [op |-> IF formMode = "create" THEN "insert" ELSE "update",
                                 title |-> r.data.title,
                                 description |-> OrNull(r.data.description)])
     ELSE UNCHANGED <<formError, submitting, onSubmitCalls, requests>>
  /\ UNCHANGED <<formMode, formValues, storeVars, optVars, viewVars, sessionVars, realtimeVars,
                 debounceVars, itemVars, authVars>>

\* handleFormSubmit after the await: reset() when a create succeeded,
\* setError when onSubmit threw
HandleFormSubmitSettle ==
  \E ok \in BOOLEAN :
    /\ submitting > 0
    /\ submitting' = submitting - 1
    /\ IF ok /\ formMode = "create"
       THEN /\ formValues' = DefaultValues(formMode)
            /\ formErrors' = {}
            /\ isSubmitted' = FALSE
            /\ UNCHANGED formError
       ELSE /\ formError' = (formError \/ ~ok)
            /\ UNCHANGED <<formValues, formErrors, isSubmitted>>
    /\ UNCHANGED <<formMode, onSubmitCalls, requests, storeVars, optVars, viewVars, sessionVars, realtimeVars,
                 debounceVars, itemVars, authVars>>

NextForm ==
  \/ SetValue
  \/ TodoFormSubmit
  \/ HandleFormSubmitSettle

InitFormSpec ==
  /\ InitStore
  /\ InitOptStore
  /\ formMode \in {"create", "edit"}
  /\ InitForm
  /\ InitView
  /\ InitSession
  /\ InitRealtime
  /\ InitDebounce
  /\ InitItems
  /\ InitAuth

SpecForm == InitFormSpec /\ [][NextForm]_vars

\* ===================================================== the todo store
StepSettles(i) ==
  /\ i \in 1..Len(calls)
  /\ calls[i].phase = "served"
  /\ calls'[i].phase \in {"resolved", "rejected"}

StepDelivers ==
  /\ channel # <<>>
  /\ channel' = Tail(channel) \/ ndup' = ndup + 1

Resolved(i, op) == calls[i].op = op /\ calls[i].phase = "resolved"

\* C1: no two records of todos have the same id, whatever the order in which
\* fetch results, confirmations and push events arrive.
C1_UniqueIds == \A i, j \in 1..Len(todos) : todos[i].id = todos[j].id => i = j

\* C2: handling a push event twice in succession leaves the same todos as
\* handling it once, for every store state and every event.
EventsOf(r) ==
  {Event(t, r, r, 0) : t \in {"INSERT", "UPDATE", "DELETE"}}

C2_EventIdempotent ==
  \A r \in db \cup {todos[i] : i \in 1..Len(todos)} :
    \A e \in EventsOf(r) :
      HandleEvent(HandleEvent(todos, e), e) = HandleEvent(todos, e)

\* C3 as claimed: a record this client created, then updated, then deleted is
\* in todos no more once every confirmation and push event has arrived, for
\* every order of arrival (no fetchTodos overlapping the deleteTodo).
NoFetchOverlap(d) ==
  \A f \in 1..Len(calls) :
    calls[f].op = "fetch" =>
      /\ f < d => f \notin calls[d].over
      /\ f > d => d \notin calls[f].over

CreatedUpdatedDeleted(a, u, d) ==
  /\ Resolved(a, "add") /\ Resolved(u, "update") /\ Resolved(d, "delete")
  /\ calls[u].id = calls[a].data[1].id
  /\ calls[d].id = calls[a].data[1].id
  /\ u < d
  /\ NoFetchOverlap(d)

Upserted(s, t, r) ==
  IF r.id \in Ids(s)
  THEN /\ Len(t) = Len(s)
       /\ \A i \in 1..Len(s) : t[i] = IF s[i].id = r.id THEN r ELSE s[i]
  ELSE /\ Len(t) = Len(s) + 1
       /\ \E k \in 1..Len(t) : t[k] = r
       /\ \A i \in 1..Len(s) : \E k \in 1..Len(t) : t[k] = s[i]

C4_UpdateUpserts ==
  [][ /\ (StepDelivers /\ Head(channel).eventType = "UPDATE")
           => Upserted(todos, todos', Head(channel).new)
      /\ \A i \in 1..Len(calls) :
           (StepSettles(i) /\ calls[i].op = "update" /\ calls[i].ok)
             => Upserted(todos, todos', calls[i].data[1]) ]_vars

\* C5: a removal of id X (push event or confirmation) leaves no record of X,
\* keeps the other records in their order and changes nothing when X is not
\* stored; a confirmed deleteTodo of a stored record leaves one record fewer.
Removed(s, t, id) ==
  /\ id \notin Ids(t)
  /\ t = SelectSeq(s, LAMBDA r : r.id # id)

C5_DeleteRemovesOne ==
  [][ /\ (StepDelivers /\ Head(channel).eventType = "DELETE")
           => Removed(todos, todos', Head(channel).old.id)
      /\ \A i \in 1..Len(calls) :
           (StepSettles(i) /\ calls[i].op = "delete" /\ calls[i].ok)
             => /\ Removed(todos, todos', calls[i].id)
                /\ calls[i].id \in Ids(todos) => Len(todos') = Len(todos) - 1 ]_vars

\* C6: a rejected addTodo, updateTodo or deleteTodo rejects its promise and no
\* step of the call, from the call to the rejection, changes todos.
Mutations == {"add", "update", "delete"}

C6_RejectionLeavesTodos ==
  [][ \A i \in 1..Len(calls') :
        calls'[i].op \in Mutations =>
          /\ (i > Len(calls)) => (todos' = todos)
          /\ (i <= Len(calls) /\ calls[i].phase = "sent" /\ calls'[i].phase = "served")
               => (todos' = todos)
          /\ (i <= Len(calls) /\ StepSettles(i) /\ ~calls[i].ok)
               => (calls'[i].phase = "rejected" /\ todos' = todos) ]_vars

C6_Witness ==
  \E i \in 1..Len(calls) :
    /\ calls[i].op = "delete" /\ calls[i].phase = "rejected"
    /\ calls[i].id \in Ids(todos)

\* C10: when the push event of a toggle to completed=true is handled before
\* the toggle's own confirmation, the confirmation leaves the record stored
\* once and completed.
C10_ToggleOnce ==
  [][ \A i \in 1..Len(calls) :
        ( /\ StepSettles(i) /\ calls[i].toggle /\ calls[i].ok
          /\ calls[i].upd.completed /\ calls[i].evSeen
          /\ Count(todos, calls[i].id) = 1 )
          => /\ Count(todos', calls[i].id) = 1
             /\ Find(todos', calls[i].id).completed ]_vars

C10_Witness ==
  \E i \in 1..Len(calls) :
    /\ calls[i].toggle /\ calls[i].phase = "resolved" /\ calls[i].evFirst
    /\ calls[i].upd.completed
    /\ Count(todos, calls[i].id) = 1
    /\ Find(todos, calls[i].id).completed
    /\ Find(todos, calls[i].id) = calls[i].data[1]

\* C21: a deleteTodo whose record is no longer on the service resolves and
\* leaves no record of its id in todos; an updateTodo whose record is no
\* longer on the service rejects and leaves todos unchanged.
C21_GoneDeleteOkUpdateFails ==
  [][ \A i \in 1..Len(calls) :
        /\ (calls[i].phase = "sent" /\ calls'[i].phase = "served" /\ calls'[i].gone)
             => /\ calls'[i].ok = (calls[i].op = "delete")
                /\ todos' = todos
        /\ (StepSettles(i) /\ calls[i].gone /\ calls[i].op = "delete")
             => /\ calls'[i].phase = "resolved"
                /\ calls[i].id \notin Ids(todos')
        /\ (StepSettles(i) /\ calls[i].gone /\ calls[i].op = "update")
             => /\ calls'[i].phase = "rejected"
                /\ todos' = todos ]_vars

\* an updateTodo of a record another call deleted has been rejected, the
\* record still being stored
C21_Witness ==
  \E i, d \in 1..Len(calls) :
    /\ calls[i].op = "update" /\ calls[i].gone /\ calls[i].phase = "rejected"
    /\ calls[i].id \in Ids(todos)
    /\ calls[d].op = "delete" /\ calls[d].id = calls[i].id /\ ~calls[d].gone
    /\ Pending(calls[d])

\* the call was made with every earlier call settled and no push event on its
\* way, and no other call has been made since
Alone(i) ==
  /\ i = Len(calls)
  /\ calls[i].over = {}
  /\ \A j \in 1..(i - 1) : calls[j].op = "fetch"

\* C22: after a successful addTodo, todos has one record more than before the
\* call, the confirmed record is its first element and the records stored
\* before follow in their order (no other store operation in between).
C22_AddPrependsOne ==
  [][ \A i \in 1..Len(calls) :
        (StepSettles(i) /\ calls[i].op = "add" /\ calls[i].ok /\ Alone(i))
          => /\ Len(todos') = Len(calls[i].snap) + 1
             /\ todos'[1] = calls[i].data[1]
             /\ Tail(todos') = calls[i].snap ]_vars

\* t is s with every record of that id replaced by data, nothing else changed
Replaced(s, t, id, data) ==
  /\ Len(t) = Len(s)
  /\ \A k \in 1..Len(s) : t[k] = IF s[k].id = id THEN data ELSE s[k]

\* C23: after a successful updateTodo(id, updates) the record of that id in
\* todos is the confirmed record, and the other records, their number and
\* their order are as before (as the continuation found them, and as they
\* were before the call when no other store operation came in between).
C23_UpdateReplacesInPlace ==
  [][ \A i \in 1..Len(calls) :
        (StepSettles(i) /\ calls[i].op = "update" /\ calls[i].ok)
          => /\ Replaced(todos, todos', calls[i].id, calls[i].data[1])
             /\ Alone(i) => /\ calls[i].id \in Ids(todos')
                            /\ Replaced(calls[i].snap, todos', calls[i].id,
                                        calls[i].data[1]) ]_vars

\* an update has replaced its record, next to another record
C23_Witness ==
  \E i \in 1..Len(calls) :
    /\ calls[i].op = "update" /\ calls[i].phase = "resolved"
    /\ Len(todos) = 2 /\ Len(calls[i].snap) = 2
    /\ \E k, m \in 1..2 :
         /\ todos[k] = calls[i].data[1]
         /\ todos[m].id # calls[i].id
         /\ calls[i].snap[k] # todos[k]
         /\ calls[i].snap[m] = todos[m]

\* every change this client made on the service has come back as a push event
\* and has been handled
ChangesDelivered ==
  \A j \in 1..Len(calls) :
    (calls[j].op \in {"add", "update", "delete"} /\ calls[j].phase = "resolved"
       /\ ~calls[j].gone) => calls[j].evSeen

\* C25: a change handled as a push event while fetchTodos is in flight is in
\* todos after the fetch result has replaced it: when the fetch completes,
\* every other call being settled and every push event handled, the ids in
\* todos are the ids of the rows on the service.
C25_FetchKeepsEvents ==
  [][ \A i \in 1..Len(calls) :
        ( /\ StepSettles(i) /\ calls[i].op = "fetch" /\ calls[i].ok
          /\ PendingCalls = {i} /\ channel = <<>> /\ ChangesDelivered )
          => Ids(todos') = {r.id : r \in db} ]_vars

FetchesInFlight == {i \in PendingCalls : calls[i].op = "fetch"}

\* C27: loading is true exactly while a fetchTodos call is in flight, also
\* when fetchTodos calls overlap; the continuation of every fetchTodos call
\* sets loading to false, and that of a failed one leaves todos unchanged and
\* rejects.
C27_LoadingWhileFetching ==
  /\ [](loading <=> FetchesInFlight # {})
  /\ [][ \A i \in 1..Len(calls) :
            (StepSettles(i) /\ calls[i].op = "fetch")
              => /\ ~loading'
                 /\ ~calls[i].ok => (todos' = todos /\ calls'[i].phase = "rejected") ]_vars

\* ================================================ the optimistic store
OptStepSettles(i) ==
  /\ i \in 1..Len(optCalls)
  /\ optCalls[i].phase = "served"
  /\ optCalls'[i].phase \in {"resolved", "rejected"}

\* C7: when the service rejects an optimistic operation, the rollback returns
\* todos to the sequence it was before the optimistic change (the store still
\* being as that change left it) and the error is rethrown.
C7_RollbackRestores ==
  [][ \A i \in 1..Len(optCalls) :
        (OptStepSettles(i) /\ ~optCalls[i].ok /\ optTodos = optCalls[i].post)
          => /\ optTodos' = optCalls[i].snap
             /\ optCalls'[i].phase = "rejected" ]_vars

\* C8: once no optimistic operation is in flight, every stored record of a
\* row has the value the service confirmed last for its id: no optimistic
\* value of a failed request, no value a rollback restored over a later
\* confirmation.
C8_OnlyConfirmedValues ==
  OptQuiescent =>
    \A k \in 1..Len(optTodos) :
      optTodos[k].id > 0 => <<optTodos[k].id, <<optTodos[k]>>>> \in lastConfirmed

\* C9: when an optimisticAdd succeeds, todos holds the confirmed record once
\* and no record with the call's temporary id.
C9_AddLeavesOneRecord ==
  [][ \A i \in 1..Len(optCalls) :
        (OptStepSettles(i) /\ optCalls[i].op = "add" /\ optCalls[i].ok)
          => /\ Count(optTodos', optCalls[i].data[1].id) = 1
             /\ optCalls[i].id \notin Ids(optTodos') ]_vars

\* the ids with an optimistic operation in flight
OptIdsInFlight == {optCalls[i].id : i \in OptPendingCalls}

\* C30: pendingOperations holds an entry for an id exactly while an optimistic
\* operation on that id is in flight (so it is empty when none is), also when
\* operations on one id overlap: every step of an optimistic operation, from
\* the optimistic change to the confirmation or the rollback, keeps it so
\* (rollbackOperation, which removes an entry on request, set aside).
C30_PendingWhileInFlight ==
  [][ (MapKeys(pendingOperations) = OptIdsInFlight /\ optCalls' # optCalls)
        => MapKeys(pendingOperations') = OptIdsInFlight' ]_vars

\* ------------------------------------------------------------ the view
MaxTodos == 2      \* rows of the table when the view's inputs are drawn

ViewTitles == {<<"a">>, <<"A", "b">>}

ViewDescriptions == {<<>>, <<"B">>}

ViewSearches == {<<>>, <<"A">>, <<"b">>}

\* created_at and updated_at of a row
ViewTimes == {<<1, 2>>, <<2, 2>>}

ViewRow(id, title, description, completed, times) ==
  [id |-> id, title |-> title, description |-> description, completed |-> completed,
   created_at |-> times[1], updated_at |-> times[2]]

\* the tables of at most MaxTodos rows
ViewTables ==
  UNION {{{ViewRow(i, f[i][1], f[i][2], f[i][3], f[i][4]) : i \in 1..n} :
            f \in [1..n -> ViewTitles \X ViewDescriptions \X BOOLEAN \X ViewTimes]} :
         n \in 0..MaxTodos}

\* the sequences holding each row of the table once
Arrangements(S) ==
  {s \in [1..Cardinality(S) -> S] : \A i, j \in 1..Cardinality(S) : s[i] = s[j] => i = j}

\* setFilter
SetFilter ==
  \E f \in Filters :
    /\ filter' = f
    /\ lastCall' = NoCall
    /\ UNCHANGED <<sort, order, search, storeVars, optVars, formVars, sessionVars, realtimeVars,
                 debounceVars, itemVars, authVars>>

\* setSort: (sort, order = 'desc')
SetSort ==
  \E st \in Sorts, ord \in Orders :
    /\ sort' = st
    /\ order' = ord
    /\ lastCall' = NoCall
    /\ UNCHANGED <<filter, search, storeVars, optVars, formVars, sessionVars, realtimeVars, debounceVars,
                 itemVars, authVars>>

\* setSearch
SetSearch ==
  \E q \in ViewSearches :
    /\ search' = q
    /\ lastCall' = NoCall
    /\ UNCHANGED <<filter, sort, order, storeVars, optVars, formVars, sessionVars, realtimeVars,
                 debounceVars, itemVars, authVars>>

\* filteredTodos(), called on every render of the page
FilteredTodos ==
  LET filtered == SelectSeq(todos, LAMBDA t : MatchesSearch(t, search) /\ MatchesFilter(t, filter))
  IN \E sorted \in SortOutcomes(filtered, sort, order) :
       /\ todos' = IF SortsInPlace(search, filter) THEN sorted ELSE todos
       /\ lastCall' = [made |-> TRUE, after |-> todos', result |-> sorted]
       /\ UNCHANGED <<loading, subscribed, calls, db, srvTime, nextId, channel, ndup,
                      filter, sort, order, search, optVars, formVars, sessionVars, realtimeVars,
                      debounceVars, itemVars, authVars>>

NextView ==
  \/ SetFilter
  \/ SetSort
  \/ SetSearch
  \/ FilteredTodos
  \/ Deliver

\* the page after fetchTodos: todos holds the rows of the table, the channel
\* is joined and the INSERT event of a row the fetch already returned may
\* still be on its way
InitViewSpec ==
  /\ db \in ViewTables
  /\ todos \in Arrangements(db)
  /\ channel \in {<<>>} \cup {<<Event("INSERT", r, <<>>, 0)>> : r \in db}
  /\ loading = FALSE
  /\ subscribed = TRUE
  /\ calls = <<>>
  /\ srvTime = 3
  /\ nextId = MaxTodos + 1
  /\ ndup = 0
  /\ InitOptStore
  /\ formMode = "create"
  /\ InitForm
  /\ InitView
  /\ InitSession
  /\ InitRealtime
  /\ InitDebounce
  /\ InitItems
  /\ InitAuth

SpecView == InitViewSpec /\ [][NextView]_vars

\* --------------------------------------------- sign-in, sign-out, the page
MaxRows == 3       \* identifiers the table hands out in a session run

\* a row of public.todos with its owner
OwnedRow(id, owner) ==
  [id |-> id, title |-> "a", completed |-> FALSE, created_at |-> id, updated_at |-> id,
   user_id |-> owner]

\* the row level security policies: auth.uid() = user_id
Visible(r, uid) == r.user_id = uid

\* the cleanup Home's effect returned: unsubscribe of subscribeToTodos, when
\* the effect had subscribed; the channel is left and delivers nothing more
\* (CleanupKeeps: the same without the unsubscribe)
CleanupKeeps(eu) == [subscribed |-> subscribed, channel |-> channel]
Cleanup(eu) ==
  IF eu # NoUser THEN [subscribed |-> FALSE, channel |-> <<>>]
  ELSE [subscribed |-> subscribed, channel |-> channel]

\* useAuthStore.signIn up to its await
SignIn ==
  \E u \in Users :
    /\ user = NoUser /\ authCall = NoAuth
    /\ authLoading' = TRUE
    /\ authCall' = [op |-> "signIn", user |-> u]
    /\ UNCHANGED <<user, mounted, effectUser, fetches, storeVars, optVars, formVars, viewVars, realtimeVars,
                 debounceVars, itemVars, authVars>>

\* Home's effect runs when Home mounts and, while it is mounted, in the
\* commit of the render in which user changed: the cleanup the previous run
\* returned, then fetchTodos() and subscribeToTodos() if a user is there
RunEffect(u) ==
  /\ effectUser' = u
  /\ channel' = Cleanup(effectUser).channel
  /\ IF u # NoUser
     THEN /\ subscribed' = TRUE
          /\ loading' = TRUE
          /\ fetches' = fetches \cup {[user |-> u, phase |-> "sent", ok |-> TRUE, data |-> <<>>]}
     ELSE /\ subscribed' = Cleanup(effectUser).subscribed
          /\ UNCHANGED <<loading, fetches>>

\* set({ user }) of the auth store, seen by Home
SetUser(u) ==
  /\ user' = u
  /\ IF mounted /\ u # effectUser
     THEN RunEffect(u)
     ELSE UNCHANGED <<effectUser, channel, subscribed, loading, fetches>>

\* signIn after its await
SignInSettle ==
  \E ok \in BOOLEAN :
    /\ authCall.op = "signIn"
    /\ SetUser(IF ok THEN authCall.user ELSE user)
    /\ authLoading' = FALSE
    /\ authCall' = NoAuth
    /\ UNCHANGED <<mounted, todos, calls, db, srvTime, nextId, ndup, optVars, formVars, viewVars, realtimeVars,
                 debounceVars, itemVars, authVars>>

\* useAuthStore.signOut up to its await (the Header's button)
SignOut ==
  /\ user # NoUser /\ authCall = NoAuth /\ ~authLoading /\ mounted
  /\ authLoading' = TRUE
  /\ authCall' = [op |-> "signOut", user |-> user]
  /\ UNCHANGED <<user, mounted, effectUser, fetches, storeVars, optVars, formVars, viewVars, realtimeVars,
                 debounceVars, itemVars, authVars>>

\* signOut after its await: set({ user: null, loading: false }), nothing else
SignOutSettle ==
  \E ok \in BOOLEAN :
    /\ authCall.op = "signOut"
    /\ SetUser(IF ok THEN NoUser ELSE user)
    /\ authLoading' = FALSE
    /\ authCall' = NoAuth
    /\ UNCHANGED <<mounted, todos, calls, db, srvTime, nextId, ndup, optVars, formVars, viewVars, realtimeVars,
                 debounceVars, itemVars, authVars>>

\* the auth page pushes to '/' once a user is there: Home mounts and its
\* effect runs
EnterHome ==
  /\ ~mounted /\ user # NoUser /\ ~authLoading
  /\ mounted' = TRUE
  /\ RunEffect(user)
  /\ UNCHANGED <<user, authLoading, authCall, todos, calls, db, srvTime, nextId, ndup,
                 optVars, formVars, viewVars, realtimeVars, debounceVars, itemVars, authVars>>

\* Home unmounts: the cleanup of its effect runs
Unmount ==
  /\ mounted
  /\ mounted' = FALSE
  /\ subscribed' = Cleanup(effectUser).subscribed
  /\ channel' = Cleanup(effectUser).channel
  /\ effectUser' = NoUser
  /\ UNCHANGED <<todos, loading, calls, db, srvTime, nextId, ndup, user, authLoading,
                 authCall, fetches, optVars, formVars, viewVars, realtimeVars, debounceVars,
                 itemVars, authVars>>

\* ProtectedRoute pushes to '/auth' when no user is there
Redirect ==
  /\ user = NoUser /\ ~authLoading
  /\ Unmount

\* the signed-in user leaves the page
LeaveHome ==
  /\ user # NoUser
  /\ Unmount

\* the select of a fetchTodos reaches the table: it sees the caller's rows
SessionServeSelect ==
  \E f \in fetches, ok \in BOOLEAN :
    /\ f.phase = "sent"
    /\ fetches' = (fetches \ {f}) \cup
         {[f EXCEPT !.phase = "served", !.ok = ok,
                    !.data = IF ok THEN OrderDesc({r \in db : Visible(r, f.user)}) ELSE <<>>]}
    /\ UNCHANGED <<user, authLoading, authCall, mounted, effectUser, storeVars, optVars,
                   formVars, viewVars, realtimeVars, debounceVars, itemVars, authVars>>

\* fetchTodos after its await
SessionFetchSettle ==
  \E f \in fetches :
    /\ f.phase = "served"
    /\ todos' = IF f.ok THEN FetchConfirm(todos, f.data) ELSE Rejected(todos)
    /\ loading' = FALSE
    /\ fetches' = fetches \ {f}
    /\ UNCHANGED <<subscribed, calls, db, srvTime, nextId, channel, ndup, user, authLoading,
                   authCall, mounted, effectUser, optVars, formVars, viewVars, realtimeVars,
                   debounceVars, itemVars, authVars>>

\* another session of a user inserts a row; the change is pushed to the
\* channels whose subscriber may select the row
OtherSessionInsert ==
  \E u \in Users :
    /\ nextId <= MaxRows
    /\ db' = db \cup {OwnedRow(nextId, u)}
    /\ nextId' = nextId + 1
    /\ channel' = IF subscribed /\ Visible(OwnedRow(nextId, u), effectUser)
                  THEN Append(channel, Event("INSERT", OwnedRow(nextId, u), OwnedRow(nextId, u), 0))
                  ELSE channel
    /\ UNCHANGED <<todos, loading, subscribed, calls, srvTime, ndup, optVars, uiVars>>

NextSession ==
  \/ SignIn
  \/ SignInSettle
  \/ SignOut
  \/ SignOutSettle
  \/ EnterHome
  \/ Redirect
  \/ LeaveHome
  \/ SessionServeSelect
  \/ SessionFetchSettle
  \/ OtherSessionInsert
  \/ Deliver

\* nobody is signed in, the table holds a row of each user
InitSessionSpec ==
  /\ todos = <<>>
  /\ loading = FALSE
  /\ subscribed = FALSE
  /\ calls = <<>>
  /\ db = {OwnedRow(1, 1), OwnedRow(2, 2)}
  /\ srvTime = 2
  /\ nextId = 3
  /\ channel = <<>>
  /\ ndup = 0
  /\ InitOptStore
  /\ formMode = "create"
  /\ InitForm
  /\ InitView
  /\ user = NoUser
  /\ authLoading = FALSE
  /\ authCall = NoAuth
  /\ mounted = FALSE
  /\ effectUser = NoUser
  /\ fetches = {}
  /\ InitRealtime
  /\ InitDebounce
  /\ InitItems
  /\ InitAuth

SpecSession == InitSessionSpec /\ [][NextSession]_vars

\* ------------------------------------- RealtimeManager (docs/09, realtime)
MaxReports == 7    \* connection losses the channel reports

MaxReconnectAttempts == 5

BaseDelay == 1000

MaxDelay == 30000

\* Math.min(1000 * Math.pow(2, this.reconnectAttempts), 30000)
Delay(n) == IF BaseDelay * 2^n < MaxDelay THEN BaseDelay * 2^n ELSE MaxDelay

\* subscribe(channelName, config) called by the application
ManagerSubscribe ==
  /\ "todos" \notin connections
  /\ connections' = connections \cup {"todos"}
  /\ chanStatus' = "joining"
  /\ UNCHANGED <<reconnectAttempts, timers, reports, storeVars, optVars, formVars, viewVars,
                 sessionVars, debounceVars, itemVars, authVars>>

\* unsubscribe(channelName) called by the application
ManagerUnsubscribe ==
  /\ "todos" \in connections
  /\ connections' = connections \ {"todos"}
  /\ chanStatus' = "none"
  /\ UNCHANGED <<reconnectAttempts, timers, reports, storeVars, optVars, formVars, viewVars,
                 sessionVars, debounceVars, itemVars, authVars>>

\* the subscribe callback with status SUBSCRIBED
StatusSubscribed ==
  /\ "todos" \in connections
  /\ chanStatus # "SUBSCRIBED"
  /\ chanStatus' = "SUBSCRIBED"
  /\ reconnectAttempts' = 0
  /\ UNCHANGED <<connections, timers, reports, storeVars, optVars, formVars, viewVars,
                 sessionVars, debounceVars, itemVars, authVars>>

\* the subscribe callback with status TIMED_OUT or CHANNEL_ERROR, and the
\* handleConnectionError it calls
StatusError ==
  \E st \in {"TIMED_OUT", "CHANNEL_ERROR"} :
    /\ "todos" \in connections
    /\ reports < MaxReports
    /\ reports' = reports + 1
    /\ chanStatus' = st
    /\ IF reconnectAttempts >= MaxReconnectAttempts
       THEN UNCHANGED <<reconnectAttempts, timers>>
       ELSE /\ reconnectAttempts' = reconnectAttempts + 1
            /\ timers' = Append(timers, [channel |-> "todos",
                                         delay |-> Delay(reconnectAttempts + 1)])
    /\ UNCHANGED <<connections, storeVars, optVars, formVars, viewVars, sessionVars, debounceVars,
                 itemVars, authVars>>

\* a timer of handleConnectionError runs: unsubscribe, then subscribe
TimerFires ==
  \E i \in 1..Len(timers) :
    /\ timers' = SubSeq(timers, 1, i - 1) \o SubSeq(timers, i + 1, Len(timers))
    /\ connections' = (connections \ {timers[i].channel}) \cup {timers[i].channel}
    /\ chanStatus' = "joining"
    /\ UNCHANGED <<reconnectAttempts, reports, storeVars, optVars, formVars, viewVars,
                   sessionVars, debounceVars, itemVars, authVars>>

NextRealtime ==
  \/ ManagerSubscribe
  \/ ManagerUnsubscribe
  \/ StatusSubscribed
  \/ StatusError
  \/ TimerFires

InitRealtimeSpec ==
  /\ InitStore
  /\ InitOptStore
  /\ InitUi

SpecRealtime == InitRealtimeSpec /\ [][NextRealtime]_vars

\* ------------------------------------------- debounce (validations.ts)
MaxWait == 2          \* the largest wait debounce is called with
MaxTime == 5          \* milliseconds followed
MaxWrapperCalls == 3  \* calls of the wrapper

Args == {"first", "second"}

\* clearTimeout(handle): the callback, when not yet run, will not run
ClearTimeoutNoop(S, handle) == S
ClearTimeout(S, handle) == {t \in S : t.handle # handle}

WrapperCalls == {p \in 1..Len(trace) : trace[p].kind = "call"}

\* the wrapper: if (timeout) clearTimeout(timeout);
\*              timeout = setTimeout(() => func(...args), wait)
Debounced ==
  /\ Cardinality(WrapperCalls) < MaxWrapperCalls
  /\ \E args \in Args :
       LET handle == Cardinality(WrapperCalls) + 1
           kept == IF timeout # NoTimer THEN ClearTimeout(scheduled, timeout)
                   ELSE scheduled
       IN /\ scheduled' = kept \cup {[handle |-> handle, due |-> time + wait, args |-> args]}
          /\ timeout' = handle
          /\ trace' = Append(trace, [kind |-> "call", at |-> time, args |-> args])
  /\ UNCHANGED <<wait, time, storeVars, optVars, formVars, viewVars, sessionVars, realtimeVars,
                 itemVars, authVars>>

\* a setTimeout callback runs, at its due time or later: func(...args)
TimeoutRuns ==
  /\ \E t \in scheduled :
       /\ t.due <= time
       /\ scheduled' = scheduled \ {t}
       /\ trace' = Append(trace, [kind |-> "func", at |-> time, args |-> t.args])
  /\ UNCHANGED <<wait, timeout, time, storeVars, optVars, formVars, viewVars, sessionVars,
                 realtimeVars, itemVars, authVars>>

\* a millisecond passes
Elapse ==
  /\ time < MaxTime
  /\ time' = time + 1
  /\ UNCHANGED <<wait, timeout, scheduled, trace, storeVars, optVars, formVars, viewVars,
                 sessionVars, realtimeVars, itemVars, authVars>>

NextDebounce ==
  \/ Debounced
  \/ TimeoutRuns
  \/ Elapse

InitDebounceSpec ==
  /\ InitStore
  /\ InitOptStore
  /\ formMode = "create"
  /\ InitForm
  /\ InitView
  /\ InitSession
  /\ InitRealtime
  /\ wait \in 0..MaxWait
  /\ DebounceStart
  /\ InitItems
  /\ InitAuth
  /\ InitAuth

SpecDebounce == InitDebounceSpec /\ [][NextDebounce]_vars

\* ------------------------------------- TodoItem's handlers (the list)
MaxItemCalls == 3   \* mutations started from the list

\* the item with its loading flag set and the call it now awaits
Busy(it, i) == [it EXCEPT !.loading = TRUE, !.awaiting = @ \cup {i}]

\* the finally block of the handler awaiting call i, in the item that runs
\* it, when that item is still mounted; handleEdit closes the editor first
\* when the call succeeded
Finally(S, i, closes) ==
  {IF i \in it.awaiting
   THEN [it EXCEPT !.loading = FALSE, !.awaiting = @ \ {i},
                   !.isEditing = IF closes THEN FALSE ELSE @]
   ELSE it : it \in S}

\* handleToggleComplete: the button is disabled while loading
HandleToggleComplete ==
  /\ Len(calls) < MaxItemCalls
  /\ \E it \in items :
       /\ ~it.loading /\ ~it.isEditing
       /\ LET todo == Find(todos, it.id)
              i == Len(calls) + 1
          IN /\ calls' = Append(calls,
                    Call("update", it.id,
                         [field |-> "completed", completed |-> ~todo.completed,
                          title |-> "a"], "a", TRUE))
             /\ items' = (items \ {it}) \cup {Busy(it, i)}
  /\ UNCHANGED <<todos, loading, subscribed, db, srvTime, nextId, channel, ndup, optVars,
                 formVars, viewVars, sessionVars, realtimeVars, debounceVars, authVars>>

\* the edit button (setIsEditing(true)) and the form's cancel button
SetIsEditing ==
  /\ \E it \in items :
       /\ ~it.loading
       /\ items' = (items \ {it}) \cup {[it EXCEPT !.isEditing = ~@]}
  /\ UNCHANGED <<storeVars, optVars, formVars, viewVars, sessionVars, realtimeVars,
                 debounceVars, authVars>>

\* handleEdit: the form's submit button is disabled while loading
HandleEdit ==
  /\ Len(calls) < MaxItemCalls
  /\ \E it \in items :
       /\ ~it.loading /\ it.isEditing
       /\ LET i == Len(calls) + 1
          IN /\ calls' = Append(calls,
                    Call("update", it.id,
                         [field |-> "title", completed |-> FALSE, title |-> "b"],
                         "a", FALSE))
             /\ items' = (items \ {it}) \cup {Busy(it, i)}
  /\ UNCHANGED <<todos, loading, subscribed, db, srvTime, nextId, channel, ndup, optVars,
                 formVars, viewVars, sessionVars, realtimeVars, debounceVars, authVars>>

\* handleDelete, the question confirmed
HandleDelete ==
  /\ Len(calls) < MaxItemCalls
  /\ \E it \in items :
       /\ ~it.loading /\ ~it.isEditing
       /\ LET i == Len(calls) + 1
          IN /\ calls' = Append(calls, Call("delete", it.id, NoUpdate, "a", FALSE))
             /\ items' = (items \ {it}) \cup {Busy(it, i)}
  /\ UNCHANGED <<todos, loading, subscribed, db, srvTime, nextId, channel, ndup, optVars,
                 formVars, viewVars, sessionVars, realtimeVars, debounceVars, authVars>>

\* updateTodo's continuation, then the handler's (handleToggleComplete or
\* handleEdit), then the list rendered with the new todos
ItemUpdateSettle ==
  \E i \in 1..Len(calls) :
    /\ calls[i].phase = "served" /\ calls[i].op = "update"
    /\ todos' = IF calls[i].ok
                THEN UpdateConfirm(todos, calls[i].id, calls[i].data[1])
                ELSE Rejected(todos)
    /\ calls' = Settled(i)
    /\ items' = Render(Finally(items, i, calls[i].ok /\ ~calls[i].toggle), todos')
    /\ UNCHANGED <<loading, subscribed, db, srvTime, nextId, channel, ndup, optVars,
                   formVars, viewVars, sessionVars, realtimeVars, debounceVars, authVars>>

\* deleteTodo's continuation, then handleDelete's, then the list rendered
ItemDeleteSettle ==
  \E i \in 1..Len(calls) :
    /\ calls[i].phase = "served" /\ calls[i].op = "delete"
    /\ todos' = IF calls[i].ok THEN DeleteConfirm(todos, calls[i].id) ELSE Rejected(todos)
    /\ calls' = Settled(i)
    /\ items' = Render(Finally(items, i, FALSE), todos')
    /\ UNCHANGED <<loading, subscribed, db, srvTime, nextId, channel, ndup, optVars,
                   formVars, viewVars, sessionVars, realtimeVars, debounceVars, authVars>>

\* a push event is handled and the list rendered with the new todos
ItemDeliver ==
  /\ channel # <<>>
  /\ todos' = HandleEvent(todos, Head(channel))
  /\ calls' = SawEvent(Head(channel))
  /\ channel' = Tail(channel)
  /\ items' = Render(items, todos')
  /\ UNCHANGED <<loading, subscribed, db, srvTime, nextId, ndup, optVars,
                 formVars, viewVars, sessionVars, realtimeVars, debounceVars, authVars>>

NextItems ==
  \/ HandleToggleComplete
  \/ SetIsEditing
  \/ HandleEdit
  \/ HandleDelete
  \/ ServeError
  \/ ServeUpdate
  \/ ServeDelete
  \/ ItemUpdateSettle
  \/ ItemDeleteSettle
  \/ ItemDeliver

\* Home with the user's two records fetched and the channel joined
InitItemsSpec ==
  /\ db = {Todo(1, "a", FALSE, 1, 1), Todo(2, "a", TRUE, 2, 2)}
  /\ todos = OrderDesc(db)
  /\ loading = FALSE
  /\ subscribed = TRUE
  /\ calls = <<>>
  /\ srvTime = 2
  /\ nextId = 3
  /\ channel = <<>>
  /\ ndup = 0
  /\ InitOptStore
  /\ formMode = "create"
  /\ InitForm
  /\ InitView
  /\ InitSession
  /\ InitRealtime
  /\ InitDebounce
  /\ items = Render({}, todos)
  /\ InitAuth

SpecItems == InitItemsSpec /\ [][NextItems]_vars

\* ---------------------------- the auth store, ProtectedRoute, AuthPage
MaxAuthCalls == 2   \* signIn, signUp and signOut calls

\* the store has changed: the page shown renders, its effect runs
Shown(u, l, i) ==
  /\ rendered' = IF route = "/" THEN ProtectedRoute(u, l, i) ELSE "none"
  /\ pushed' = Push(route, u, l, i, pushed)
  /\ route' = route

\* initialize after its await of getSession; AuthProvider's effect, which
\* depends on initialized, runs its cleanup (the listener it registered is
\* unsubscribed) and registers nothing again
InitializeSettle ==
  /\ initCall
  /\ \E outcome \in {"session", "error", "throws"} :
       /\ user' = CASE outcome = "session" -> session
                     [] outcome = "error" -> NoUser
                     [] OTHER -> user
       /\ listeners' = IF outcome = "throws" THEN listeners \ {"AuthProvider"}
                       ELSE (listeners \ {"AuthProvider"}) \cup {"initialize"}
  /\ authLoading' = FALSE
  /\ initialized' = TRUE
  /\ initCall' = FALSE
  /\ Shown(user', FALSE, TRUE)
  /\ UNCHANGED <<session, authCall, authReply, authResults>>
  /\ UNCHANGED <<mounted, effectUser, fetches, storeVars, optVars, formVars, viewVars,
                 realtimeVars, debounceVars, itemVars>>

\* the auth client announces its session (INITIAL_SESSION, TOKEN_REFRESHED),
\* or a session another tab began or ended (SIGNED_IN, SIGNED_OUT): each
\* registered listener sets user and sets loading to false
AuthStateChange ==
  /\ \E u \in Users \cup {NoUser} :
       /\ session' = u
       /\ IF listeners # {}
          THEN user' = u /\ authLoading' = FALSE
          ELSE UNCHANGED <<user, authLoading>>
  /\ Shown(user', authLoading', initialized)
  /\ UNCHANGED <<initialized, listeners, initCall, authCall, authReply, authResults>>
  /\ UNCHANGED <<mounted, effectUser, fetches, storeVars, optVars, formVars, viewVars,
                 realtimeVars, debounceVars, itemVars>>

\* signIn and signUp up to their await (the forms of the auth page)
AuthSignIn ==
  /\ Len(authResults) < MaxAuthCalls
  /\ route = "/auth" /\ ~authLoading /\ user = NoUser /\ authCall = NoAuth
  /\ \E u \in Users, op \in {"signIn", "signUp"} :
       authCall' = [op |-> op, user |-> u]
  /\ authLoading' = TRUE
  /\ Shown(user, TRUE, initialized)
  /\ UNCHANGED <<user, initialized, session, listeners, initCall, authReply, authResults>>
  /\ UNCHANGED <<mounted, effectUser, fetches, storeVars, optVars, formVars, viewVars,
                 realtimeVars, debounceVars, itemVars>>

\* signOut up to its await (the Header's button)
AuthSignOut ==
  /\ Len(authResults) < MaxAuthCalls
  /\ rendered = "children" /\ ~authLoading /\ authCall = NoAuth
  /\ authCall' = [op |-> "signOut", user |-> user]
  /\ authLoading' = TRUE
  /\ Shown(user, TRUE, initialized)
  /\ UNCHANGED <<user, initialized, session, listeners, initCall, authReply, authResults>>
  /\ UNCHANGED <<mounted, effectUser, fetches, storeVars, optVars, formVars, viewVars,
                 realtimeVars, debounceVars, itemVars>>

\* the auth service answers; on success the client takes the new session
\* (signUp: when the service opens one) and the listeners are called
AuthServe ==
  /\ authCall # NoAuth /\ authReply = "none"
  /\ \/ /\ authReply' = "error"
        /\ UNCHANGED <<session, user, authLoading>>
     \/ /\ authReply' = "ok"
        /\ \/ /\ session' = IF authCall.op = "signOut" THEN NoUser ELSE authCall.user
              /\ IF listeners # {}
                 THEN user' = session' /\ authLoading' = FALSE
                 ELSE UNCHANGED <<user, authLoading>>
           \/ /\ authCall.op = "signUp"
              /\ UNCHANGED <<session, user, authLoading>>
  /\ Shown(user', authLoading', initialized)
  /\ UNCHANGED <<initialized, listeners, initCall, authCall, authResults>>
  /\ UNCHANGED <<mounted, effectUser, fetches, storeVars, optVars, formVars, viewVars,
                 realtimeVars, debounceVars, itemVars>>

\* signIn, signUp, signOut after their await
AuthSettled(reply, call, u) ==
  IF reply = "ok" THEN (IF call.op = "signOut" THEN NoUser ELSE call.user) ELSE u

AuthSettle ==
  /\ authCall # NoAuth /\ authReply # "none"
  /\ user' = AuthSettled(authReply, authCall, user)
  /\ authLoading' = FALSE
  /\ authResults' = Append(authResults,
                           [op |-> authCall.op,
                            end |-> IF authReply = "ok" THEN "resolved" ELSE "rejected"])
  /\ authCall' = NoAuth
  /\ authReply' = "none"
  /\ Shown(user', FALSE, initialized)
  /\ UNCHANGED <<initialized, session, listeners, initCall>>
  /\ UNCHANGED <<mounted, effectUser, fetches, storeVars, optVars, formVars, viewVars,
                 realtimeVars, debounceVars, itemVars>>

\* the route pushed is shown: its page mounts, renders and runs its effect
NavigationCompletes ==
  /\ pushed # "none"
  /\ route' = pushed
  /\ rendered' = IF pushed = "/" THEN ProtectedRoute(user, authLoading, initialized)
                 ELSE "none"
  /\ pushed' = Push(pushed, user, authLoading, initialized, "none")
  /\ UNCHANGED <<user, authLoading, authCall, initialized, session, listeners, initCall,
                 authReply, authResults>>
  /\ UNCHANGED <<mounted, effectUser, fetches, storeVars, optVars, formVars, viewVars,
                 realtimeVars, debounceVars, itemVars>>

NextAuth ==
  \/ InitializeSettle
  \/ AuthStateChange
  \/ AuthSignIn
  \/ AuthSignOut
  \/ AuthServe
  \/ AuthSettle
  \/ NavigationCompletes

\* the store as created, AuthProvider's effect run: initialize() is awaiting
\* getSession and AuthProvider's listener is registered
InitAuthSpec ==
  /\ InitStore
  /\ InitOptStore
  /\ formMode = "create"
  /\ InitForm
  /\ InitView
  /\ user = NoUser
  /\ authLoading = TRUE
  /\ authCall = NoAuth
  /\ mounted = FALSE
  /\ effectUser = NoUser
  /\ fetches = {}
  /\ InitRealtime
  /\ InitDebounce
  /\ InitItems
  /\ initialized = FALSE
  /\ session \in Users \cup {NoUser}
  /\ listeners = {"AuthProvider"}
  /\ initCall = TRUE
  /\ authReply = "none"
  /\ authResults = <<>>
  /\ route \in {"/", "/auth"}
  /\ rendered = IF route = "/" THEN ProtectedRoute(NoUser, TRUE, FALSE) ELSE "none"
  /\ pushed = "none"

SpecAuth == InitAuthSpec /\ [][NextAuth]_vars

\* ===================================================== claims: the form
\* the input has an empty, whitespace-only or too long title, or a too long
\* description
InvalidInput(input) ==
  \/ Length(input.title) = 0
  \/ input.title.body = 0
  \/ Length(input.title) > TitleMax
  \/ input.description # Undefined /\ Length(input.description) > DescriptionMax

\* C11: a submission of TodoForm whose title is empty, whitespace-only or
\* longer than 100 characters, or whose description is longer than 500
\* characters, ends with a validation error on a field; no step taken while
\* the form holds such values calls the onSubmit prop or sends a request.
C11_InvalidNeverSent ==
  [][InvalidInput(formValues)
       => /\ requests' = requests
          /\ onSubmitCalls' = onSubmitCalls
          /\ TodoFormSubmit => formErrors' # {}]_vars

C11_Witness ==
  /\ isSubmitted
  /\ formErrors = {"title"}
  /\ formValues.title = Str(1, 0, 0)
  /\ requests = <<>>

C13_ExactlyTheMatching ==
  [][FilteredTodos =>
       \A id \in Ids(todos) :
         Count(lastCall'.result, id) =
           (IF MatchesSearch(Find(todos, id), search) /\ MatchesFilter(Find(todos, id), filter)
            THEN 1 ELSE 0)]_vars

\* C14: filteredTodos() is a pure read: it leaves the todos sequence, its
\* records and their order, and every other field of the store as they were.
C14_PureRead ==
  [][FilteredTodos =>
       /\ todos' = todos
       /\ UNCHANGED <<loading, filter, sort, order, search>>]_vars

\* C15: two calls of filteredTodos() with no store operation in between
\* return the same records in the same order.
C15_SameResultTwice ==
  [][FilteredTodos /\ lastCall.made /\ todos = lastCall.after
       => lastCall'.result = lastCall.result]_vars

\* a comes before b under the selected sort key and direction
Before(a, b) ==
  IF order = "asc" THEN ValueLess(a, b, sort) ELSE ValueLess(b, a, sort)

\* C16: the list filteredTodos() returns is ordered by the selected sort key
\* in the selected direction, and records with equal keys are ordered by
\* their identifier.
C16_OrderedWithTieBreak ==
  [][FilteredTodos =>
       LET r == lastCall'.result IN
       \A i, j \in 1..Len(r) :
         i < j => \/ Before(r[i], r[j])
                  \/ ~Before(r[j], r[i]) /\ r[i].id <= r[j].id]_vars

\* =================================================== claims: the session
\* C17: once the user is logged out (user is null) or Home is left, the
\* subscription opened by subscribeToTodos is unsubscribed, and while it is
\* unsubscribed no realtime event is applied to todos.
C17_UnsubscribedAfterLogout ==
  /\ []((user = NoUser \/ ~mounted) => ~subscribed)
  /\ [][~subscribed => ~Deliver]_vars

\* the user signed out with the INSERT event of a new row of theirs still on
\* its way; the row was never applied
C17_Witness ==
  /\ user = NoUser /\ authCall = NoAuth
  /\ ~subscribed
  /\ todos # <<>>
  /\ \E r \in db : r.id = MaxRows /\ r.user_id = todos[1].user_id /\ r.id \notin Ids(todos)

\* C18: after a successful signOut todos is empty, and when a user signs in
\* no record loaded for another user is in the store.
C18_ClearedOnSignOut ==
  /\ [](user = NoUser /\ authCall = NoAuth => todos = <<>>)
  /\ [][user = NoUser /\ user' # NoUser
          => \A i \in 1..Len(todos') : todos'[i].user_id = user']_vars

\* C19: every record the listener applies to the store, and every record in
\* todos, is owned by the user signed in at the time.
C19_OwnedByCurrentUser ==
  /\ [](user # NoUser => \A i \in 1..Len(todos) : todos[i].user_id = user)
  /\ [][Deliver => Head(channel).new.user_id = user]_vars

\* ================================================== claims: reconnection
\* C20: when the channel reports TIMED_OUT or CHANNEL_ERROR a resubscription
\* is scheduled, to run after the backoff delay of the attempt.
C20_ResubscribesAfterLoss ==
  [][StatusError =>
       /\ Len(timers') = Len(timers) + 1
       /\ timers'[Len(timers')].delay = Delay(reconnectAttempts')
       /\ timers'[Len(timers')].delay >= 2 * BaseDelay]_vars
\* ================================================== claims: debounce
\* the latest wrapper call before position p of the trace (0: none)
LastCallBefore(p) ==
  IF \E q \in WrapperCalls : q < p
  THEN CHOOSE q \in WrapperCalls : q < p /\ \A r \in WrapperCalls : r < p => r <= q
  ELSE 0

FuncCalls == {p \in 1..Len(trace) : trace[p].kind = "func"}

\* C24: func is never invoked earlier than wait after the most recent call of
\* the wrapper; a burst of wrapper calls, each less than wait after the one
\* before, leads to one invocation of func, with the arguments of the last
\* call of the burst: none between two calls of the burst, one (not two)
\* after the last, and that one made once no callback is left to run.
C24_DebounceOnceAfterWait ==
  /\ \A p \in FuncCalls :
       LET q == LastCallBefore(p)
       IN /\ q # 0
          /\ trace[p].at >= trace[q].at + wait
          /\ trace[p].args = trace[q].args
          /\ \A r \in FuncCalls : (r < p /\ q < r) => r = p
  /\ \A q \in WrapperCalls :
       LET n == LastCallBefore(q)
       IN (n # 0 /\ trace[q].at - trace[n].at < wait)
            => \A r \in FuncCalls : ~(n < r /\ r < q)
  /\ (scheduled = {} /\ trace # <<>>) => trace[Len(trace)].kind = "func"

\* a burst of three calls has been followed by func, called once with the
\* arguments of the third call, which differ from those of the first two
C24_Witness ==
  /\ wait = MaxWait
  /\ Len(trace) = 4
  /\ \A p \in 1..3 : trace[p].kind = "call"
  /\ trace[2].at - trace[1].at < wait /\ trace[2].at > trace[1].at
  /\ trace[3].at - trace[2].at < wait /\ trace[3].at > trace[2].at
  /\ trace[4].kind = "func" /\ trace[4].args = "second"
  /\ trace[1].args = "first" /\ trace[2].args = "first" /\ trace[3].args = "second"
  /\ scheduled = {}

\* ================================================== claims: the list
\* C26: while a toggle, edit or delete started from a record's TodoItem is in
\* flight, the controls of that record's item are disabled (its loading flag
\* is set), and no two mutations of one record are in flight together.
C26_OneMutationPerRecord ==
  \A i \in PendingCalls :
    /\ \A it \in items : it.id = calls[i].id => it.loading
    /\ \A j \in PendingCalls : calls[j].id = calls[i].id => j = i

\* ============================================ claims: authentication
\* C28: the protected content is rendered only when auth is initialized, not
\* loading and a user is signed in; whenever, on the todo page, auth is
\* initialized, not loading and no user is signed in, the navigation to
\* /auth has been triggered and the protected content is not rendered.
C28_ProtectedOnlyWhenSignedIn ==
  /\ rendered = "children" => (initialized /\ ~authLoading /\ user # NoUser)
  /\ (route = "/" /\ initialized /\ ~authLoading /\ user = NoUser)
       => (pushed = "/auth" /\ rendered # "children")

\* the content was shown, the user has signed out from it: nothing is
\* rendered and the navigation to /auth is on its way
C28_Witness ==
  /\ route = "/" /\ initialized /\ ~authLoading /\ user = NoUser
  /\ authResults = <<[op |-> "signOut", end |-> "resolved"]>>
  /\ rendered = "null" /\ pushed = "/auth"

\* C29: for signIn, signUp and signOut, loading is true from the start of the
\* call until the service responds and false after the call; on success user
\* becomes the returned user (null for signOut), on failure user is left
\* unchanged and the call rejects; also while the auth-state-change
\* listeners fire during the call.
C29_AuthCallLoading ==
  /\ []((authCall # NoAuth /\ authReply = "none") => authLoading)
  /\ [][ (authCall # NoAuth /\ authCall' = NoAuth)
            => /\ ~authLoading'
               /\ authReply = "ok"
                    => /\ user' = IF authCall.op = "signOut" THEN NoUser
                                  ELSE authCall.user
                       /\ authResults'[Len(authResults')].end = "resolved"
               /\ authReply = "error"
                    => /\ user' = user
                       /\ authResults'[Len(authResults')].end = "rejected" ]_vars

====
